---- MODULE Spec2Model ----
(***************************************************************************)
(* Model of the WAV container parsing, duration estimation and batch       *)
(* re-encoding scripts of css10-convert-ljspeech.                          *)
(*                                                                         *)
(* A file's content is a record of the parameters it was built from;       *)
(* FileBytes turns it into the byte sequence the scripts read, and every   *)
(* parser below works on that byte sequence, byte offset by byte offset,   *)
(* as the Python code does with f.read / f.seek / struct.unpack.           *)
(***************************************************************************)
EXTENDS Integers, Sequences, FiniteSets, TLC

VARIABLES
    wav,         \* duration scripts: content of the file being measured
    durPc,       \* duration scripts: "start" -> "done"
    header_info, \* get_audio_duration: result of the first read_wav_header
    duration,    \* get_audio_duration: returned value (None or a rational)
    script,      \* converter scripts: which one runs ("all", "ru", "zh", "idle")
    fs,          \* content of every path of raw/wavs (Absent: no such file)
    bk,          \* content of every path of the script's backup directory
    listing,     \* the order in which glob enumerates raw/wavs
    wav_files,   \* result of the glob (wav_files / ru_files / chinese_files)
    ieee_files,  \* the conversion work list
    pcm_files,   \* convert_all_ieee_formats: files classified as format 1
    other_files, \* convert_all_ieee_formats: files classified as neither
    pc,          \* position in the script
    idx,         \* index of the loop's current file in ieee_files
    success,     \* result of the last convert_wav_format call
    success_count,
    failed_count,
    failed_files,
    rpc,         \* restore_original_formats.py: position in the script
    backup_files, \* restore_from_backup: result of the glob of the backup directory
    restored_count,
    run,         \* number of the converter run over this dataset (1: the first)
    restore_run, \* number of the run of restore_original_formats.py
    pre,         \* content of raw/wavs when the script started
    passed,      \* names that the batch loop passed to the external tool
    written,     \* paths of raw/wavs the script has created, changed or removed
    probe_script, \* investigation scripts: which one runs
    probe_files, \* contents of the globbed files, in glob order
    probe_pc,    \* position in the investigation script
    probe_idx,   \* index of the loop's current file in probe_files
    format_info, \* result of the last investigate_wav_format call
    format_counts, \* format tag -> number of files counted under it
    error_count, \* number of files counted as errors
    data_dir,    \* convert_to_ljspeech: the archive directories under data/
    archive_dirs, \* the sorted list of archive directories
    lj_pc,       \* position in convert_to_ljspeech.main
    lj_a,        \* index of the current archive in archive_dirs
    lj_l,        \* index of the current transcript line
    output_wavs, \* content of raw/wavs/<id>.wav for every identifier
    metadata_rows,
    metadata_csv,  \* rows written to raw/metadata.csv (Absent: not written)
    metadata_file, \* update_metadata_format: lines of raw/metadata.csv
    backup_file, \* update_metadata_format: lines of raw/metadata_backup.csv
    meta_runs    \* update_metadata_format: how many times it has run

durVars == <<wav, durPc, header_info, duration>>
restoreVars == <<rpc, backup_files, restored_count>>
runVars == <<run, restore_run>>
convVars == <<script, fs, bk, listing, wav_files, ieee_files, pcm_files,
              other_files, pc, idx, success, success_count, failed_count,
              failed_files, pre, passed, written, restoreVars, runVars>>
probeVars == <<probe_script, probe_files, probe_pc, probe_idx, format_info,
               format_counts, error_count>>
ljVars == <<data_dir, archive_dirs, lj_pc, lj_a, lj_l, output_wavs,
            metadata_rows, metadata_csv>>
metaVars == <<metadata_file, backup_file, meta_runs>>
otherVars == <<ljVars, metaVars>>
vars == <<durVars, convVars, probeVars, otherVars>>

\* Python's None; a record, so that it can be compared with the dicts and
\* numbers the functions return
None == [none |-> TRUE]

-----------------------------------------------------------------------------
(* Bytes *)

RIFF == <<82, 73, 70, 70>>
WAVE == <<87, 65, 86, 69>>
FMT == <<102, 109, 116, 32>>
DATA == <<100, 97, 116, 97>>
LIST == <<76, 73, 83, 84>>
JUNK == <<74, 85, 78, 75>>

U16(n) == <<n % 256, (n \div 256) % 256>>
U32(n) == <<n % 256, (n \div 256) % 256, (n \div 65536) % 256, (n \div 16777216) % 256>>

Zeros(n) == [i \in 1..n |-> 0]

\* f.read(n) at byte offset pos (0-based): at most n bytes, fewer at end of file
Read(b, pos, n) ==
    IF pos >= Len(b) THEN <<>>
    ELSE SubSeq(b, pos + 1, IF pos + n <= Len(b) THEN pos + n ELSE Len(b))

\* struct.unpack('<I', s)[0] and struct.unpack('<H', s)[0]; the callers check
\* the length first, a short buffer raises struct.error
UnpackI(s) == s[1] + 256 * s[2] + 65536 * s[3] + 16777216 * s[4]
UnpackH(s) == s[1] + 256 * s[2]

-----------------------------------------------------------------------------
(* Building the test files *)

Chunk(tag, size, payload) == tag \o U32(size) \o payload

FmtPayload(c) ==
    U16(c.tag) \o U16(c.ch) \o U32(c.rate) \o U32(c.brate)
        \o U16(c.ch * (c.bits \div 8)) \o U16(c.bits)

\* the chunks before the format chunk: none, or one unknown chunk whose
\* declared length is c.pre - 1 (so 1 is an empty chunk, 4 a 3-byte one);
\* c.pad: a chunk of odd length is followed by the RIFF pad byte
PreChunks(c) ==
    IF c.pre = 0 THEN <<>>
    ELSE Chunk(LIST, c.pre - 1, Zeros(c.pre - 1))
             \o (IF c.pad /\ (c.pre - 1) % 2 = 1 THEN <<0>> ELSE <<>>)

\* the data chunk: absent (c.data < 0) or c.data payload bytes
DataChunk(c) ==
    IF c.data < 0 THEN <<>> ELSE Chunk(DATA, c.data, Zeros(c.data))

Body(c) ==
    (IF c.dataFirst THEN DataChunk(c) ELSE <<>>)
        \o PreChunks(c) \o Chunk(FMT, 16, FmtPayload(c))
        \o (IF c.dataFirst THEN <<>> ELSE DataChunk(c))

\* c.declared < 0: the size field holds the true value (file length - 8)
FullBytes(c) ==
    LET body == (IF c.wave THEN WAVE ELSE JUNK) \o Body(c)
    IN  (IF c.riff THEN RIFF ELSE JUNK)
            \o U32(IF c.declared < 0 THEN Len(body) ELSE c.declared)
            \o body

\* c.cut > 0: the file is truncated to its first c.cut bytes
FileBytes(c) ==
    LET full == FullBytes(c)
    IN  IF c.cut > 0 /\ c.cut < Len(full) THEN SubSeq(full, 1, c.cut) ELSE full

-----------------------------------------------------------------------------
(* read_wav_header and get_audio_duration                                  *)
(* (create_audio_duration_csv.py; analyze_audio_durations_numpy.py and     *)
(* final_analysis_report.py hold the same two functions)                   *)

\* a / b in Python: a float, kept exact as a fraction; b = 0 raises
\* ZeroDivisionError, which both functions catch and turn into None
TrueDiv(a, b) == IF b = 0 THEN None ELSE [num |-> a, den |-> b]

\* equality of two returned values (None, or fractions compared as numbers)
SameValue(x, y) ==
    IF x = None \/ y = None THEN x = y
    ELSE x.num * y.den = y.num * x.den

\* the six struct.unpack calls of the 'fmt ' branch, at payload offset pos;
\* a short read raises struct.error (caught: None)
ParseFmt(b, pos, file_size) ==
    IF Len(Read(b, pos, 16)) < 16 THEN None
    ELSE [audio_format    |-> UnpackH(Read(b, pos, 2)),
          num_channels    |-> UnpackH(Read(b, pos + 2, 2)),
          sample_rate     |-> UnpackI(Read(b, pos + 4, 4)),
          byte_rate       |-> UnpackI(Read(b, pos + 8, 4)),
          block_align     |-> UnpackH(Read(b, pos + 12, 2)),
          bits_per_sample |-> UnpackH(Read(b, pos + 14, 2)),
          file_size       |-> file_size]

\* what the 'fmt ' branch does with the parsed fields: it returns them, so
\* the walk ends at the format chunk
FmtBranch(b, pos, file_size) == ParseFmt(b, pos, file_size)

\* the 'data' branch when the format variables are bound
DataBranch(fmt, chunk_size) ==
    LET d == TrueDiv(chunk_size,
                 fmt.sample_rate * fmt.num_channels * (fmt.bits_per_sample \div 8))
    IN  IF d = None THEN None
        ELSE [audio_format    |-> fmt.audio_format,
              num_channels    |-> fmt.num_channels,
              sample_rate     |-> fmt.sample_rate,
              byte_rate       |-> fmt.byte_rate,
              block_align     |-> fmt.block_align,
              bits_per_sample |-> fmt.bits_per_sample,
              file_size       |-> fmt.file_size,
              duration        |-> d]

\* a skip that also passes the pad byte after an odd-length payload
SkipChunk_Aligned(pos, chunk_size) == pos + 8 + chunk_size + (chunk_size % 2)

\* the stream offset after the 8 header bytes at pos were read and
\* f.seek(chunk_size, 1) skipped the payload
SkipChunk(pos, chunk_size) == pos + 8 + chunk_size

\* the while-True loop; pos is the stream offset, fmt the format variables
\* bound so far (None: 'sample_rate' not in locals())
RECURSIVE ChunkLoop(_, _, _, _)
ChunkLoop(b, pos, file_size, fmt) ==
    LET chunk_id == Read(b, pos, 4)
        size_raw == Read(b, pos + 4, 4)
    IN  IF chunk_id = <<>> THEN None
        ELSE IF Len(size_raw) < 4 THEN None
        ELSE LET chunk_size == UnpackI(size_raw)
             IN  IF chunk_id = FMT THEN FmtBranch(b, pos + 8, file_size)
                 ELSE IF chunk_id = DATA /\ fmt # None
                      THEN DataBranch(fmt, chunk_size)
                 ELSE ChunkLoop(b, SkipChunk(pos, chunk_size), file_size, fmt)

read_wav_header(b) ==
    IF Read(b, 0, 4) # RIFF THEN None
    ELSE IF Len(Read(b, 4, 4)) < 4 THEN None
    ELSE IF Read(b, 8, 4) # WAVE THEN None
    ELSE ChunkLoop(b, 12, UnpackI(Read(b, 4, 4)), None)

HEADER_SIZE == 44

\* the else-branch of get_audio_duration: estimate from the size field
Fallback(h) ==
    IF h = None THEN None
    ELSE TrueDiv(h.file_size - HEADER_SIZE, h.byte_rate)

get_audio_duration(b) ==
    LET h == read_wav_header(b)
    IN  IF h # None /\ "duration" \in DOMAIN h THEN h.duration
        ELSE Fallback(read_wav_header(b))

-----------------------------------------------------------------------------
(* The converter scripts: files, paths and the external tool *)

Absent == [absent |-> TRUE]

\* A name is the sequence of dot-separated parts before the final ".wav":
\* <<"a">> is a.wav, <<"a", "temp">> is a.temp.wav.
TempSuffix == "temp"
TestSuffix == "test"

\* temp_output = wavs_dir / f"{wav_file.stem}.temp.wav"   (all, ru)
\* temp_file   = wav_file.with_suffix('.tmp.wav')         (zh)
TempPath(n) == Append(n, TempSuffix)
\* test_output = wavs_dir / f"{test_file.stem}.test.wav"
TestPath(n) == Append(n, TestSuffix)

DatasetNames == {<<"a">>, <<"b">>, <<"a", TempSuffix>>}
AllPaths == DatasetNames \cup {TempPath(n) : n \in DatasetNames}
                \cup {TestPath(n) : n \in DatasetNames}

MaxFiles == 2

TargetRate == 22050

\* the kinds of file a dataset holds; k makes the contents of two files differ
IeeeFile(k) ==
    [riff |-> TRUE, wave |-> TRUE, pre |-> 0, dataFirst |-> FALSE, tag |-> 3,
     ch |-> 1, rate |-> TargetRate, brate |-> 4 * TargetRate, bits |-> 32,
     data |-> 4 * k, declared |-> -1, cut |-> 0, pad |-> FALSE]
PcmFile(k) ==
    [IeeeFile(k) EXCEPT !.tag = 1, !.brate = 2 * TargetRate, !.bits = 16]
OtherFile(k) == [IeeeFile(k) EXCEPT !.tag = 85]
BadRiffFile(k) == [IeeeFile(k) EXCEPT !.riff = FALSE]
BadWaveFile(k) == [IeeeFile(k) EXCEPT !.wave = FALSE]

Kinds(k) == {IeeeFile(k), PcmFile(k), OtherFile(k), BadRiffFile(k), BadWaveFile(k)}

\* what ffmpeg -acodec pcm_s16le -ar 22050 -ac 1 writes for an input it decodes
Converted(c) ==
    [c EXCEPT !.riff = TRUE, !.wave = TRUE, !.tag = 1, !.ch = 1,
              !.rate = TargetRate, !.brate = 2 * TargetRate, !.bits = 16,
              !.declared = -1, !.cut = 0]
\* an output file that is not a valid container (the write stopped early)
Garbage(c) == [Converted(c) EXCEPT !.cut = 6]
\* a copy that stopped early
PartialCopy(c) == [c EXCEPT !.cut = 10]

\* what one subprocess.run of ffmpeg can do: exit status 0 and a converted
\* file; exit status 0 and an unusable file; non-zero exit without or with an
\* output file; subprocess.run raising.  (The call has no timeout: the
\* actions add "hang" for a tool that never exits.)
ToolOutcomes == {"ok", "ok_garbage", "fail", "fail_partial", "raise"}

\* convert_wav_format(input_file, output_file): its return value ...
ToolSuccess(o) == o \in {"ok", "ok_garbage"}
\* ... and its effect on the directory
ToolEffect(fsys, inp, out, o) ==
    IF o = "ok" THEN [fsys EXCEPT ![out] = Converted(fsys[inp])]
    ELSE IF o \in {"ok_garbage", "fail_partial"}
         THEN [fsys EXCEPT ![out] = Garbage(fsys[inp])]
    ELSE fsys

\* investigate_wav_format of convert_all_ieee_formats.py: the walk to the
\* first 'fmt ' chunk; riff_header and wave_header are read and not compared
RECURSIVE FindFmt(_, _)
FindFmt(b, pos) ==
    LET chunk_id == Read(b, pos, 4)
        size_raw == Read(b, pos + 4, 4)
    IN  IF chunk_id = <<>> THEN None
        ELSE IF Len(size_raw) < 4 THEN None
        ELSE IF chunk_id = FMT
             THEN IF Len(Read(b, pos + 8, 2)) < 2 THEN None
                  ELSE [audio_format |-> UnpackH(Read(b, pos + 8, 2))]
        ELSE FindFmt(b, SkipChunk(pos, UnpackI(size_raw)))

investigate_wav_format(b) ==
    IF Len(Read(b, 4, 4)) < 4 THEN None
    ELSE FindFmt(b, 12)

\* audio_format == 3 / audio_format == 1 / else
IsFormat(c, n) == investigate_wav_format(FileBytes(c)) = [audio_format |-> n]

\* shutil.copy2(src, dst) on contents: completes, or raises before or while
\* writing the destination
CopyOutcomes == {"ok", "err", "partial"}

\* a copy that reports completion after writing only the first bytes
Copy2_Truncating(dstOld, src, o) ==
    IF o = "err" THEN dstOld ELSE PartialCopy(src)

Copy2(dstOld, src, o) ==
    IF o = "ok" THEN src ELSE IF o = "partial" THEN PartialCopy(src) ELSE dstOld

\* the names of seq that exist in fsys, in order
Existing(seq, fsys) == SelectSeq(seq, LAMBDA n : fsys[n] # Absent)

Range(seq) == {seq[k] : k \in 1..Len(seq)}

-----------------------------------------------------------------------------
(* The converter scripts: convert_all_ieee_formats.py ("all"),             *)
(* convert_russian_wav_format.py ("ru"), convert_chinese_wav_format.py     *)
(* ("zh")                                                                  *)

Scripts == {"all", "ru", "zh"}

NameIndex(n) == IF n = <<"a">> THEN 1 ELSE IF n = <<"b">> THEN 2 ELSE 3

KindCount == 5
KindOf(n, j) ==
    CASE j = 1 -> IeeeFile(NameIndex(n))
      [] j = 2 -> PcmFile(NameIndex(n))
      [] j = 3 -> OtherFile(NameIndex(n))
      [] j = 4 -> BadRiffFile(NameIndex(n))
      [] OTHER -> BadWaveFile(NameIndex(n))

Orders(S) ==
    {s \in [1..Cardinality(S) -> S] : \A x, y \in DOMAIN s : s[x] = s[y] => x = y}

DurIdle ==
    /\ wav = None
    /\ durPc = "idle"
    /\ header_info = None
    /\ duration = None

ConvIdle ==
    /\ script = "idle"
    /\ fs = [p \in AllPaths |-> Absent]
    /\ bk = [p \in AllPaths |-> Absent]
    /\ listing = <<>>
    /\ wav_files = <<>>
    /\ ieee_files = <<>>
    /\ pcm_files = <<>>
    /\ other_files = <<>>
    /\ pc = "idle"
    /\ idx = 0
    /\ success = FALSE
    /\ success_count = 0
    /\ failed_count = 0
    /\ failed_files = <<>>
    /\ pre = [p \in AllPaths |-> Absent]
    /\ passed = {}
    /\ written = {}
    /\ rpc = "idle"
    /\ backup_files = <<>>
    /\ restored_count = 0
    /\ run = 0
    /\ restore_run = 0

LjIdle ==
    /\ data_dir = {}
    /\ archive_dirs = <<>>
    /\ lj_pc = "idle"
    /\ lj_a = 0
    /\ lj_l = 0
    /\ output_wavs = <<>>
    /\ metadata_rows = <<>>
    /\ metadata_csv = Absent

\* a text file that exists, with its lines, and a path without a file
TextFile(lines) == [exists |-> TRUE, lines |-> lines]
NoFile == [exists |-> FALSE, lines |-> <<>>]

MetaIdle ==
    /\ metadata_file = NoFile
    /\ backup_file = NoFile
    /\ meta_runs = 0

OtherIdle == LjIdle /\ MetaIdle

ProbeIdle ==
    /\ probe_script = "idle"
    /\ probe_files = <<>>
    /\ probe_pc = "idle"
    /\ probe_idx = 0
    /\ format_info = None
    /\ format_counts = <<>>
    /\ error_count = 0

\* a dataset of 1..n files in raw/wavs, an empty backup directory, the
\* first run of a converter script about to start
InitFiles(n) ==
    /\ DurIdle
    /\ ProbeIdle
    /\ OtherIdle
    /\ script \in Scripts
    /\ \E S \in SUBSET DatasetNames, kind \in [DatasetNames -> 1..KindCount] :
          /\ Cardinality(S) \in 1..n
          /\ fs = [p \in AllPaths |-> IF p \in S THEN KindOf(p, kind[p]) ELSE Absent]
          /\ listing \in Orders(S)
    /\ bk = [p \in AllPaths |-> Absent]
    /\ wav_files = <<>>
    /\ ieee_files = <<>>
    /\ pcm_files = <<>>
    /\ other_files = <<>>
    /\ pc = "start"
    /\ idx = 0
    /\ success = FALSE
    /\ success_count = 0
    /\ failed_count = 0
    /\ failed_files = <<>>
    /\ pre = fs
    /\ passed = {}
    /\ written = {}
    /\ rpc = "start"
    /\ backup_files = <<>>
    /\ restored_count = 0
    /\ run = 1
    /\ restore_run = 1

Init == InitFiles(MaxFiles)

\* the file the batch loop is working on
Cur == ieee_files[idx]

\* the loop body entered at the tool call, the backup copy left out
LoopBodyStart_NoBackup == "convert"

\* the first statement of the loop body
LoopBodyStart == "backup"

\* leaving an iteration: the next file, or the report after the loop
NextIteration ==
    /\ idx' = idx + 1
    /\ pc' = IF idx + 1 > Len(ieee_files) THEN "done" ELSE LoopBodyStart

\* wav_files = list(wavs_dir.glob(...)); if not wav_files: return
Glob ==
    /\ pc = "start"
    /\ wav_files' = Existing(listing, fs)
    /\ ieee_files' = IF script = "all" THEN <<>> ELSE wav_files'
    /\ pc' = IF wav_files' = <<>> THEN "returned"
             ELSE IF script = "all" THEN "classify" ELSE "test_backup"
    /\ UNCHANGED <<durVars, probeVars, otherVars, runVars, restoreVars, failed_count, script, fs, bk, listing, pcm_files, other_files, idx, success,
                   success_count, failed_files, pre, passed, written>>

\* convert_all_ieee_formats: the classification loop and "if not ieee_files"
Classify ==
    /\ pc = "classify"
    /\ ieee_files' = SelectSeq(wav_files, LAMBDA n : IsFormat(fs[n], 3))
    /\ pcm_files' = SelectSeq(wav_files, LAMBDA n : IsFormat(fs[n], 1))
    /\ other_files' = SelectSeq(wav_files,
                          LAMBDA n : ~IsFormat(fs[n], 3) /\ ~IsFormat(fs[n], 1))
    /\ pc' = IF ieee_files' = <<>> THEN "returned" ELSE "test_backup"
    /\ UNCHANGED <<durVars, probeVars, otherVars, runVars, restoreVars, failed_count, script, fs, bk, listing, wav_files, idx, success,
                   success_count, failed_files, pre, passed, written>>

\* shutil.copy2(test_file, test_backup)
TestBackup ==
    /\ pc = "test_backup"
    /\ LET f == ieee_files[1]
       IN  \E o \in CopyOutcomes :
              /\ bk' = [bk EXCEPT ![f] = Copy2(bk[f], fs[f], o)]
              /\ pc' = IF o = "ok" THEN "test_convert" ELSE "crashed"
    /\ UNCHANGED <<durVars, probeVars, otherVars, runVars, restoreVars, failed_count, script, fs, listing, wav_files, ieee_files, pcm_files,
                   other_files, idx, success, success_count, failed_files, pre,
                   passed, written>>

\* success, error = convert_wav_format(test_file, test_output); a failed test
\* conversion ends the script
TestConvert ==
    /\ pc = "test_convert"
    /\ LET f == ieee_files[1]
       IN  \E o \in ToolOutcomes \cup {"hang"} :
              /\ fs' = ToolEffect(fs, f, TestPath(f), o)
              /\ written' = IF o \in {"ok", "ok_garbage", "fail_partial"} THEN written \cup {TestPath(f)} ELSE written
              /\ success' = ToolSuccess(o)
              /\ pc' = IF o = "hang" THEN "hung"
                       ELSE IF ToolSuccess(o) THEN "test_cleanup" ELSE "returned"
    /\ UNCHANGED <<durVars, probeVars, otherVars, runVars, restoreVars, failed_count, script, bk, listing, wav_files, ieee_files, pcm_files,
                   other_files, idx, success_count, failed_files, pre, passed>>

\* the stat calls, the header check and test_output.unlink(); stat and
\* unlink raise when the file is missing
TestCleanup ==
    /\ pc = "test_cleanup"
    /\ LET t == TestPath(ieee_files[1])
       IN  \E ok \in IF fs[t] = Absent THEN {FALSE} ELSE BOOLEAN :
              /\ fs' = IF ok THEN [fs EXCEPT ![t] = Absent] ELSE fs
              /\ written' = IF ok THEN written \cup {t} ELSE written
              /\ pc' = IF ok THEN "prompt" ELSE "crashed"
    /\ UNCHANGED <<durVars, probeVars, otherVars, runVars, restoreVars, failed_count, script, bk, listing, wav_files, ieee_files, pcm_files,
                   other_files, idx, success, success_count, failed_files, pre,
                   passed>>

\* response = input(...); anything but 'y' ends the script.  The Chinese
\* script then calls backup_and_convert, which globs again.
Prompt ==
    /\ pc = "prompt"
    /\ \E yes \in BOOLEAN :
          IF ~yes
          THEN pc' = "returned" /\ UNCHANGED <<ieee_files, idx>>
          ELSE /\ ieee_files' = IF script = "zh" THEN Existing(listing, fs)
                                ELSE ieee_files
               /\ idx' = 1
               /\ pc' = IF ieee_files' = <<>> THEN "returned" ELSE LoopBodyStart
    /\ UNCHANGED <<durVars, probeVars, otherVars, runVars, restoreVars, failed_count, script, fs, bk, listing, wav_files, pcm_files, other_files,
                   success, success_count, failed_files, pre, passed, written>>

\* shutil.copy2(wav_file, backup_file); a missing source raises
Backup ==
    /\ pc = "backup"
    /\ IF fs[Cur] = Absent
       THEN pc' = "crashed" /\ UNCHANGED bk
       ELSE \E o \in CopyOutcomes :
               /\ bk' = [bk EXCEPT ![Cur] = Copy2(bk[Cur], fs[Cur], o)]
               /\ pc' = IF o = "ok" THEN "convert" ELSE "crashed"
    /\ UNCHANGED <<durVars, probeVars, otherVars, runVars, restoreVars, failed_count, script, fs, listing, wav_files, ieee_files, pcm_files,
                   other_files, idx, success, success_count, failed_files, pre,
                   passed, written>>

\* success, error = convert_wav_format(wav_file, temp_output)
Convert ==
    /\ pc = "convert"
    /\ \E o \in ToolOutcomes \cup {"hang"} :
          /\ fs' = ToolEffect(fs, Cur, TempPath(Cur), o)
          /\ written' = IF o \in {"ok", "ok_garbage", "fail_partial"}
                        THEN written \cup {TempPath(Cur)} ELSE written
          /\ success' = ToolSuccess(o)
          /\ pc' = IF o = "hang" THEN "hung"
                   ELSE IF ToolSuccess(o) THEN "unlink" ELSE "discard"
    /\ passed' = passed \cup {Cur}
    /\ UNCHANGED <<durVars, probeVars, otherVars, runVars, restoreVars, failed_count, script, bk, listing, wav_files, ieee_files, pcm_files,
                   other_files, idx, success_count, failed_files, pre>>

\* wav_file.unlink(); raises when the file is missing or cannot be removed
Unlink ==
    /\ pc = "unlink"
    /\ \E ok \in IF fs[Cur] = Absent THEN {FALSE} ELSE BOOLEAN :
          /\ fs' = IF ok THEN [fs EXCEPT ![Cur] = Absent] ELSE fs
          /\ written' = IF ok THEN written \cup {Cur} ELSE written
          /\ pc' = IF ok THEN "rename" ELSE "crashed"
    /\ UNCHANGED <<durVars, probeVars, otherVars, runVars, restoreVars, failed_count, script, bk, listing, wav_files, ieee_files, pcm_files,
                   other_files, idx, success, success_count, failed_files, pre,
                   passed>>

\* temp_output.rename(wav_file); success_count += 1.  rename raises when the
\* temporary output is missing or cannot be moved
Rename ==
    /\ pc = "rename"
    /\ \E ok \in IF fs[TempPath(Cur)] = Absent THEN {FALSE} ELSE BOOLEAN :
          IF ok
          THEN /\ fs' = [fs EXCEPT ![Cur] = fs[TempPath(Cur)],
                                   ![TempPath(Cur)] = Absent]
               /\ written' = written \cup {Cur, TempPath(Cur)}
               /\ success_count' = success_count + 1
               /\ NextIteration
          ELSE /\ pc' = "crashed"
               /\ UNCHANGED <<fs, written, success_count, idx>>
    /\ UNCHANGED <<durVars, probeVars, otherVars, runVars, restoreVars, failed_count, script, bk, listing, wav_files, ieee_files, pcm_files,
                   other_files, success, failed_files, pre, passed>>

\* the failure branch without the removal of the temporary output
DiscardTemp_Keep(fsys, t) == fsys

\* the effect of "if temp_output.exists(): temp_output.unlink()"
DiscardTemp(fsys, t) == [fsys EXCEPT ![t] = Absent]

Discard ==
    /\ pc = "discard"
    /\ IF fs[TempPath(Cur)] = Absent
       THEN pc' = "restore" /\ UNCHANGED <<fs, written>>
       ELSE \E ok \in BOOLEAN :
               /\ fs' = IF ok THEN DiscardTemp(fs, TempPath(Cur)) ELSE fs
               /\ written' = IF ok THEN written \cup {TempPath(Cur)} ELSE written
               /\ pc' = IF ok THEN "restore" ELSE "crashed"
    /\ UNCHANGED <<durVars, probeVars, otherVars, runVars, restoreVars, failed_count, script, bk, listing, wav_files, ieee_files, pcm_files,
                   other_files, idx, success, success_count, failed_files, pre,
                   passed>>

\* a restore that writes only over a target that exists
RestoreFile_IfExists(fsys, bks, f, o) ==
    IF fsys[f] = Absent THEN fsys
    ELSE [fsys EXCEPT ![f] = Copy2(fsys[f], bks[f], o)]

\* shutil.copy2(backup_file, wav_file) / shutil.copy2(backup_file, target_file):
\* the target is created when it does not exist
RestoreFile(fsys, bks, f, o) == [fsys EXCEPT ![f] = Copy2(fsys[f], bks[f], o)]

\* a failure branch that does not append to the list
RecordFailure_Drop(ff, f) == ff

\* failed_files.append((wav_file.name, error)); the model keeps the name
RecordFailure(ff, f) == Append(ff, f)

\* shutil.copy2(backup_file, wav_file); failed_count += 1;
\* failed_files.append(...)
Restore ==
    /\ pc = "restore"
    /\ \E o \in IF bk[Cur] = Absent THEN {"err"} ELSE CopyOutcomes :
          /\ fs' = RestoreFile(fs, bk, Cur, o)
          /\ written' = IF o = "err" THEN written ELSE written \cup {Cur}
          /\ IF o = "ok"
             THEN /\ failed_count' = failed_count + 1
                  /\ failed_files' = RecordFailure(failed_files, Cur)
                  /\ NextIteration
             ELSE pc' = "crashed" /\ UNCHANGED <<failed_count, failed_files, idx>>
    /\ UNCHANGED <<durVars, probeVars, otherVars, runVars, restoreVars, script, bk, listing, wav_files, ieee_files, pcm_files,
                   other_files, success, success_count, pre, passed>>

\* Ctrl-C or a kill while the batch loop runs: no script catches
\* KeyboardInterrupt or installs a signal handler, the process ends where
\* it is
Interrupt ==
    /\ pc \in {"backup", "convert", "unlink", "rename", "discard", "restore", "hung"}
    /\ pc' = "interrupted"
    /\ UNCHANGED <<durVars, probeVars, otherVars, runVars, restoreVars, script, fs, bk, listing,
                   wav_files, ieee_files, pcm_files, other_files, idx, success,
                   success_count, failed_count, failed_files, pre, passed, written>>

\* the converter script is not running (any more)
Stopped == pc \in {"done", "returned", "crashed", "interrupted"}

\* a glob whose pattern matches no backup file
BackupListing_None(order, bks) == <<>>

\* backup_files = list(backup_path.glob('*.wav'))
BackupListing(order, bks) == Existing(order, bks)

\* restore_original_formats.py, run after a converter script: the glob of
\* restore_from_backup on the backup directory that script filled (the
\* other two directories are missing or empty: 0 files).  The backup
\* directory is enumerated in the order of raw/wavs.
RestoreGlob ==
    /\ rpc = "start"
    /\ Stopped
    /\ backup_files' = BackupListing(listing, bk)
    /\ rpc' = IF backup_files' = <<>> THEN "done" ELSE "run"
    /\ UNCHANGED <<durVars, probeVars, otherVars, runVars, script, fs, bk, listing, wav_files,
                   ieee_files, pcm_files, other_files, pc, idx, success,
                   success_count, failed_count, failed_files, pre, passed,
                   written, restored_count>>

\* a restore that moves the backup file to the target
BackupAfterRestore_Move(bks, f) == [bks EXCEPT ![f] = Absent]

\* the backup directory after shutil.copy2(backup_file, target_file): the
\* source of a copy stays as it is
BackupAfterRestore(bks, f) == bks

\* "for backup_file in backup_files" has no further element after this one
RestoreLoopEnds == restored_count + 1 = Len(backup_files)

\* one iteration of restore_from_backup's loop:
\* shutil.copy2(backup_file, target_file); restored_count += 1
RestoreFromBackup ==
    /\ rpc = "run"
    /\ LET f == backup_files[restored_count + 1]
       IN  \E o \in CopyOutcomes :
              /\ fs' = RestoreFile(fs, bk, f, o)
              /\ bk' = BackupAfterRestore(bk, f)
              /\ IF o = "ok"
                 THEN /\ restored_count' = restored_count + 1
                      /\ rpc' = IF RestoreLoopEnds THEN "done" ELSE "run"
                 ELSE rpc' = "crashed" /\ UNCHANGED restored_count
    /\ UNCHANGED <<durVars, probeVars, otherVars, runVars, script, listing, wav_files,
                   ieee_files, pcm_files, other_files, pc, idx, success,
                   success_count, failed_count, failed_files, pre, passed,
                   written, backup_files>>

Next ==
    \/ Glob \/ Classify \/ TestBackup \/ TestConvert \/ TestCleanup \/ Prompt
    \/ Backup \/ Convert \/ Unlink \/ Rename \/ Discard \/ Restore
    \/ Interrupt \/ RestoreGlob \/ RestoreFromBackup

Spec == Init /\ [][Next]_vars

-----------------------------------------------------------------------------
(* Consecutive runs over the same dataset *)

MaxRerunFiles == 2
MaxRuns == 2

\* the converter script is started again after a run that reached the end
\* of its loop: its local variables start afresh, raw/wavs and the backup
\* directory are as the last run left them (backup_dir.mkdir(exist_ok=True))
Rerun ==
    /\ pc = "done"
    /\ rpc = "start" /\ restore_run = 1
    /\ run < MaxRuns
    /\ run' = run + 1
    /\ pc' = "start"
    /\ wav_files' = <<>>
    /\ ieee_files' = <<>>
    /\ pcm_files' = <<>>
    /\ other_files' = <<>>
    /\ idx' = 0
    /\ success' = FALSE
    /\ success_count' = 0
    /\ failed_count' = 0
    /\ failed_files' = <<>>
    /\ UNCHANGED <<durVars, probeVars, otherVars, restoreVars, restore_run, script, fs, bk,
                   listing, pre, passed, written>>

MaxRestoreFiles == 1
MaxRestoreRuns == 2

\* restore_original_formats.py is started again after a complete run
RestoreAgain ==
    /\ rpc = "done"
    /\ restore_run < MaxRestoreRuns
    /\ restore_run' = restore_run + 1
    /\ rpc' = "start"
    /\ backup_files' = <<>>
    /\ restored_count' = 0
    /\ UNCHANGED <<durVars, probeVars, otherVars, run, script, fs, bk, listing, wav_files,
                   ieee_files, pcm_files, other_files, pc, idx, success,
                   success_count, failed_count, failed_files, pre, passed,
                   written>>

InitRerun == InitFiles(MaxRerunFiles)

NextRerun == Next \/ Rerun

SpecRerun == InitRerun /\ [][NextRerun]_vars

InitRestoreTwice == InitFiles(MaxRestoreFiles)

NextRestoreTwice == Next \/ RestoreAgain

SpecRestoreTwice == InitRestoreTwice /\ [][NextRestoreTwice]_vars

-----------------------------------------------------------------------------
(* Properties of the converter scripts *)

InLoop == pc \in {"backup", "convert", "unlink", "rename", "discard", "restore"}

\* the step that ends the loop iteration of Cur
IterationEnds == idx >= 1 /\ idx' = idx + 1

\* a probe that checks both magics and reads the encoding tag
Canonical(c) ==
    LET h == read_wav_header(FileBytes(c))
    IN  c # Absent /\ h # None /\ h.audio_format = 1

BadMagic(c) ==
    Read(FileBytes(c), 0, 4) # RIFF \/ Read(FileBytes(c), 8, 4) # WAVE

\* C1: when the loop iteration of a file ends after the tool reported failure
\* (non-zero exit or an exception in convert_wav_format), the original path
\* holds the file's pre-run bytes, the temporary output path does not exist
\* and the file is in the failure list.
C1_FailedFileIntact ==
    [][(IterationEnds /\ ~success)
         => /\ fs'[Cur] = pre[Cur]
            /\ fs'[TempPath(Cur)] = Absent
            /\ Cur \in Range(failed_files')]_vars

\* a file whose tool run failed after writing a partial output has ended its
\* iteration: recorded as failed, original intact, temporary output removed
C1_Witness ==
    \E k \in 1..Len(failed_files) :
        LET f == failed_files[k]
        IN  /\ TempPath(f) \in written
            /\ fs[TempPath(f)] = Absent
            /\ fs[f] = pre[f]
            /\ f \in passed

\* C2: the original path is replaced by the tool's output only when the tool
\* reported success and a re-probe of the temporary output classifies it as
\* canonical integer PCM.
C2_ReplaceOnlyVerifiedOutput ==
    [][(pc = "rename" /\ IterationEnds)
         => success /\ Canonical(fs[TempPath(Cur)])]_vars

\* C3: the external tool is invoked for a file (test conversion or loop) only
\* when the backup directory holds a complete copy of that file, and every
\* step of the loop that changes or removes the current original happens
\* while its backup holds the original's bytes.
C3_BackupBeforeToolAndSwap ==
    [][/\ (pc = "test_convert" /\ pc' # pc)
            => (fs[ieee_files[1]] # Absent /\ bk[ieee_files[1]] = fs[ieee_files[1]])
       /\ (pc = "convert" /\ pc' # pc)
            => (fs[Cur] # Absent /\ bk[Cur] = fs[Cur])
       /\ (InLoop /\ fs[Cur] # Absent /\ fs'[Cur] # fs[Cur])
            => bk[Cur] = fs[Cur]]_vars

\* the original of the current file has been removed, after the tool ran,
\* and its pre-run bytes are in the backup directory
C3_Witness ==
    /\ pc = "rename"
    /\ Cur \in passed
    /\ fs[Cur] = Absent
    /\ bk[Cur] = pre[Cur]

\* C4: a file that is canonical (format tag 1) when the run starts is never
\* passed to the external tool, is never written, removed or replaced, and
\* keeps its content.
C4_CanonicalUntouched ==
    \A n \in DatasetNames :
        Canonical(pre[n])
            => /\ n \notin passed
               /\ n \notin written
               /\ fs[n] = pre[n]

\* C5: when an I/O step raises after the backup of the current file was taken
\* and the tool was run, the temporary output is gone, the original holds its
\* pre-run bytes and the file is recorded as failed.
C5_RestoredAfterIoError ==
    (pc = "crashed" /\ idx >= 1 /\ Cur \in passed)
        => /\ fs[Cur] = pre[Cur]
           /\ fs[TempPath(Cur)] = Absent
           /\ Cur \in Range(failed_files)

\* C6: a batch run that has stopped has an outcome (converted or failed) for
\* every file of its work list.
C6_EveryFileHasOutcome ==
    (idx >= 1 /\ pc \in {"done", "crashed"})
        => success_count + Len(failed_files) = Len(ieee_files)

\* C7: in convert_all_ieee_formats, a file whose RIFF or WAVE magic is wrong
\* is never classified as IEEE float or integer PCM, is never submitted to
\* the tool and keeps its content.
C7_BadMagicNeverClassified ==
    script = "all"
        => \A n \in DatasetNames :
              (pre[n] # Absent /\ BadMagic(pre[n]))
                  => /\ n \notin Range(ieee_files)
                     /\ n \notin Range(pcm_files)
                     /\ n \notin passed
                     /\ fs[n] = pre[n]

\* the file was built with an encoding tag that is neither 1 nor 3
OtherTag(c) == c # Absent /\ c.tag \notin {1, 3}

\* C14: in convert_all_ieee_formats, a file whose encoding tag is neither 1
\* nor 3 is classified as 'other', is never passed to the tool and keeps its
\* content during the run; only files with tag 3 are in the work list.
C14_OtherFilesLeftAlone ==
    (script = "all" /\ rpc = "start")
        => /\ \A n \in DatasetNames :
                 OtherTag(pre[n])
                     => /\ pc \notin {"start", "classify"} => n \in Range(other_files)
                        /\ n \notin passed
                        /\ fs[n] = pre[n]
           /\ \A n \in Range(ieee_files) : pre[n].tag = 3

\* the file's loop iteration ended with the success branch
ConvertedFile(f) == f \in Range(ieee_files) /\ f \notin Range(failed_files)

C16_RestoreRecreatesTarget ==
    [][/\ (pc = "restore" /\ IterationEnds)
            => (fs'[Cur] = bk[Cur] /\ fs'[Cur] = pre[Cur] /\ fs'[Cur] # Absent)
       /\ (rpc = "run" /\ restored_count' = restored_count + 1)
            => LET f == backup_files[restored_count + 1]
               IN  fs'[f] = bk[f] /\ fs'[f] # Absent]_vars

\* the converter stopped at rename, after it had removed the original of
\* b.wav; restore_original_formats then ran to its end and b.wav holds its
\* pre-run bytes again
C16_Witness ==
    /\ pc = "crashed" /\ success /\ idx >= 1
    /\ Cur = <<"b">>
    /\ Cur \in written
    /\ rpc = "done"
    /\ fs[Cur] = pre[Cur]

\* C17: every tool invocation returns: the script never waits for ever on a
\* tool that does not exit.
C17_ToolCallReturns == pc # "hung"

\* C18: when the batch has ended, the final content of every work-list file
\* is what processing that file alone gives (the pre-run bytes for a failed
\* file, the tool's output for its pre-run bytes for a converted one),
\* whatever was processed before or after it.
C18_OutcomeIndependentOfOrder ==
    (pc = "done" /\ rpc = "start")
        => \A f \in Range(ieee_files) :
              IF ConvertedFile(f)
              THEN fs[f] \in {Converted(pre[f]), Garbage(pre[f])}
              ELSE fs[f] = pre[f]

\* C19: when the batch loop is interrupted, every work-list file that was
\* not yet reached is untouched, and every file reached holds its complete
\* pre-run or its complete converted content, with no temporary output left
\* at a temporary path that did not exist before the run.
C19_ConsistentWhenInterrupted ==
    (pc = "interrupted" /\ rpc = "start")
        => \A k \in 1..Len(ieee_files) :
              LET f == ieee_files[k]
              IN  IF k > idx THEN fs[f] = pre[f]
                  ELSE /\ fs[f] \in {pre[f], Converted(pre[f])}
                       /\ pre[TempPath(f)] = Absent => fs[TempPath(f)] = Absent

Occurs(seq, n) == Cardinality({k \in 1..Len(seq) : seq[k] = n})

\* C20: the classification puts every globbed file in exactly one class;
\* after every step of the loop success_count + failed_count is the number
\* of finished iterations, the failure list has failed_count entries and no
\* name twice, and a recorded outcome is never changed: the counters never
\* decrease and the failure list only grows at its end.
C20_CountedOnce ==
    [][/\ pc = "classify"
            => \A n \in Range(wav_files) :
                  Occurs(ieee_files', n) + Occurs(pcm_files', n)
                      + Occurs(other_files', n) = 1
       /\ idx' >= 1 => success_count' + failed_count' = idx' - 1
       /\ Len(failed_files') = failed_count'
       /\ \A n \in Range(failed_files') : Occurs(failed_files', n) = 1
       /\ Range(failed_files') \subseteq Range(ieee_files')
       /\ success_count' >= success_count
       /\ Len(failed_files') >= Len(failed_files)
       /\ SubSeq(failed_files', 1, Len(failed_files)) = failed_files]_vars

\* convert_all_ieee_formats ended its loop after it had classified one file
\* as 'other' and recorded the only work-list file as failed
C20_Witness ==
    /\ script = "all"
    /\ pc = "done"
    /\ Len(other_files) >= 1
    /\ failed_count = 1
    /\ Len(failed_files) = 1

\* C23: at every step of a conversion run the pre-run bytes of every
\* work-list file are at its original path or at its backup path.
C23_OriginalNeverLost ==
    rpc = "start"
        => \A f \in Range(ieee_files) : fs[f] = pre[f] \/ bk[f] = pre[f]

\* C24: the temporary output path of the current file is not the path of a
\* globbed file, and no step of the loop changes or removes a dataset file
\* other than the current one.
C24_TempPathDisjoint ==
    [][InLoop
         => /\ TempPath(Cur) \notin Range(wav_files)
            /\ \A n \in DatasetNames :
                  (n # Cur /\ pre[n] # Absent) => fs'[n] = fs[n]]_vars

\* C26: when a conversion run that reached the end of its loop is followed
\* by a complete run of restore_original_formats, every work-list file holds
\* its pre-run bytes at its original path; no step of the restore changes a
\* path that has no backup.
C26_RoundTrip ==
    [][/\ (pc' = "done" /\ rpc' = "done")
            => \A f \in Range(ieee_files') : fs'[f] = pre'[f]
       /\ rpc = "run"
            => \A n \in AllPaths : bk[n] = Absent => fs'[n] = fs[n]]_vars

\* a run with one converted and one failed file was followed by a complete
\* restore: both files hold their pre-run bytes, the converted one again
C26_Witness ==
    /\ pc = "done" /\ rpc = "done"
    /\ success_count >= 1 /\ failed_count >= 1
    /\ restored_count = Len(ieee_files)
    /\ \A f \in Range(ieee_files) : fs[f] = pre[f] /\ f \in written

\* C25: when a run after the first completes a backup copy of a file whose
\* backup held the file's first-run original, the backup still holds it.
C25_BackupKeepsFirstOriginal ==
    [][\A f \in DatasetNames :
          (run >= 2 /\ bk[f] = pre[f] /\ pre[f] # Absent
             /\ pc \in {"test_backup", "backup"} /\ pc' \in {"test_convert", "convert"})
          => bk'[f] = pre[f]]_vars

\* C27: no step of restore_from_backup changes the backup directory; the
\* count of a complete run is the number of files in the backup directory
\* (0 when there is none); in a run after a complete first one, every
\* completed copy leaves raw/wavs as it was.
C27_RestoreIdempotent ==
    [][/\ (rpc # "idle" /\ (rpc' # rpc \/ restored_count' # restored_count))
            => bk' = bk
       /\ rpc' = "done"
            => restored_count' = Cardinality({n \in AllPaths : bk'[n] # Absent})
       /\ (restore_run >= 2 /\ rpc \in {"start", "run"} /\ rpc' \in {"run", "done"})
            => fs' = fs]_vars

\* restore_original_formats has completed a second run that copied a file
\* the converter had replaced, and the file holds its pre-run bytes
C27_Witness ==
    /\ restore_run = 2
    /\ rpc = "done"
    /\ restored_count >= 1
    /\ \E f \in Range(backup_files) :
          f \in Range(ieee_files) /\ ConvertedFile(f) /\ fs[f] = pre[f]

\* C28: when a converter script has ended without entering the batch loop
\* (no file, failed test conversion, or no 'y' at the prompt), raw/wavs
\* holds the same files with the same content as before the script started.
C28_NoBatchNoChange ==
    (pc = "returned" /\ rpc = "start") => fs = pre

-----------------------------------------------------------------------------
(* The duration scripts: one file is measured *)

MaxDataWords == 3
MaxPre == 4

DurInputs ==
    [riff : BOOLEAN, wave : BOOLEAN, pre : {0, 1, MaxPre}, dataFirst : BOOLEAN,
     tag : {1, 3}, ch : {0, 1, 2}, rate : {0, 2, 8000}, brate : {0, 4, 16000},
     bits : {0, 8, 16}, data : {-1} \cup {4 * k : k \in 0..MaxDataWords},
     declared : {-1, 40}, cut : {0, 14, 30, 36, 46}, pad : BOOLEAN]

InitDur ==
    /\ ConvIdle
    /\ ProbeIdle
    /\ OtherIdle
    /\ wav \in DurInputs
    /\ durPc = "start"
    /\ header_info = None
    /\ duration = None

\* duration = get_audio_duration(wav_file), as the analysis loops call it
GetAudioDuration ==
    /\ durPc = "start"
    /\ header_info' = read_wav_header(FileBytes(wav))
    /\ duration' = get_audio_duration(FileBytes(wav))
    /\ durPc' = "done"
    /\ UNCHANGED <<wav, convVars, probeVars, otherVars>>

NextDur == GetAudioDuration

SpecDur == InitDur /\ [][NextDur]_vars

-----------------------------------------------------------------------------
(* Properties of the duration estimator *)

\* the measured file is an intact container: both magics, no truncation
Intact(c) == c.riff /\ c.wave /\ c.cut = 0

\* the format chunk is followed by a data chunk
FmtThenData(c) == Intact(c) /\ ~c.dataFirst /\ c.data >= 0

BytesPerSample(c) == c.bits \div 8

\* C8: for a well-formed container whose format chunk is followed by a data
\* chunk (true size field, consistent byte rate, non-zero parameters), the
\* returned duration is data_chunk_length / (rate * channels * bytes/sample).
C8_ExactWhenDataPresent ==
    (/\ durPc = "done"
     /\ FmtThenData(wav)
     /\ wav.declared < 0
     /\ wav.rate * wav.ch * BytesPerSample(wav) > 0
     /\ wav.brate = wav.rate * wav.ch * BytesPerSample(wav))
    => SameValue(duration,
                 [num |-> wav.data, den |-> wav.rate * wav.ch * BytesPerSample(wav)])

\* C9: for a container that ends after its format chunk, before any data
\* chunk, with more than 44 bytes on disk and byte_rate > 0, the returned
\* duration is (actual file size - 44) / byte_rate, and is not None.
C9_FallbackFromActualSize ==
    (/\ durPc = "done"
     /\ Intact(wav) /\ wav.data < 0
     /\ Len(FileBytes(wav)) > HEADER_SIZE
     /\ wav.brate > 0)
    => /\ duration # None
       /\ SameValue(duration,
                     [num |-> Len(FileBytes(wav)) - HEADER_SIZE, den |-> wav.brate])

\* C10: when the format chunk declares sample_rate = 0, channel_count = 0 or
\* bits_per_sample = 0, the estimator returns None whatever byte_rate is.
C10_NoneOnZeroParameter ==
    (/\ durPc = "done"
     /\ Intact(wav)
     /\ (wav.rate = 0 \/ wav.ch = 0 \/ wav.bits = 0))
    => duration = None

-----------------------------------------------------------------------------
(* The investigation scripts: investigate_all_formats.py ("all_formats")   *)
(* and investigate_russian_format.py ("russian")                           *)

\* the dict returned by "except Exception as e: return {'error': str(e)}"
ErrorInfo == [error |-> "struct.error"]

\* the while-True loop of investigate_wav_format in the two investigation
\* scripts: a short read of the size or of a format field raises (caught),
\* an empty read of the chunk id breaks out of the loop and the function
\* ends without a return statement
RECURSIVE FormatWalk(_, _, _)
FormatWalk(b, pos, file_size) ==
    LET chunk_id == Read(b, pos, 4)
        size_raw == Read(b, pos + 4, 4)
    IN  IF chunk_id = <<>> THEN None
        ELSE IF Len(size_raw) < 4 THEN ErrorInfo
        ELSE IF chunk_id = FMT
             THEN IF ParseFmt(b, pos + 8, file_size) = None THEN ErrorInfo
                  ELSE ParseFmt(b, pos + 8, file_size)
        ELSE FormatWalk(b, SkipChunk(pos, UnpackI(size_raw)), file_size)

\* investigate_wav_format of the investigation scripts: riff_header and
\* wave_header are read and not compared
investigate_wav_format_info(b) ==
    IF Len(Read(b, 4, 4)) < 4 THEN ErrorInfo
    ELSE FormatWalk(b, 12, UnpackI(Read(b, 4, 4)))

\* 'error' in format_info; raises TypeError when format_info is None
HasError(info) == "error" \in DOMAIN info

\* format_counts[audio_format] = format_counts.get(audio_format, 0) + 1
CountUp(counts, t) ==
    [u \in DOMAIN counts \cup {t} |->
        (IF u \in DOMAIN counts THEN counts[u] ELSE 0) + (IF u = t THEN 1 ELSE 0)]

ProbeScripts == {"all_formats", "russian"}

MaxProbeFiles == 2

\* a container that ends after an empty unknown chunk, before any format chunk
NoFmtFile == [IeeeFile(1) EXCEPT !.pre = 1, !.cut = 20]
\* a container cut inside the header of its first chunk
CutHeaderFile == [IeeeFile(1) EXCEPT !.cut = 14]
\* a container whose first chunk declares more bytes than the file holds
LongChunkFile == [IeeeFile(1) EXCEPT !.pre = 4, !.cut = 21]

ProbeInputs ==
    {IeeeFile(1), PcmFile(1), OtherFile(1), BadRiffFile(1), NoFmtFile,
     CutHeaderFile, LongChunkFile}

\* sample_files = ru_files[:5]
SAMPLE_FILES == 5

\* the number of files of the sample loop: the first file of each language
\* (the model's files are of one language), or the first five files
SampleCount ==
    IF probe_script = "all_formats" THEN 1
    ELSE IF Len(probe_files) < SAMPLE_FILES THEN Len(probe_files) ELSE SAMPLE_FILES

InitProbe ==
    /\ DurIdle
    /\ ConvIdle
    /\ OtherIdle
    /\ probe_script \in ProbeScripts
    /\ \E n \in 0..MaxProbeFiles : probe_files \in [1..n -> ProbeInputs]
    /\ probe_pc = "start"
    /\ probe_idx = 0
    /\ format_info = None
    /\ format_counts = <<>>
    /\ error_count = 0

\* wav_files = list(wavs_dir.glob(...)); if not wav_files: return
ProbeGlob ==
    /\ probe_pc = "start"
    /\ probe_pc' = IF probe_files = <<>> THEN "returned" ELSE "sample"
    /\ probe_idx' = 1
    /\ UNCHANGED <<durVars, convVars, otherVars, probe_script, probe_files, format_info,
                   format_counts, error_count>>

\* one iteration of the sample loop: probe the file and print what it holds
ProbeSample ==
    /\ probe_pc = "sample"
    /\ format_info' = investigate_wav_format_info(FileBytes(probe_files[probe_idx]))
    /\ IF format_info' = None
       THEN probe_pc' = "crashed" /\ UNCHANGED probe_idx
       ELSE IF probe_idx + 1 > SampleCount
            THEN probe_pc' = "count" /\ probe_idx' = 1
            ELSE probe_pc' = "sample" /\ probe_idx' = probe_idx + 1
    /\ UNCHANGED <<durVars, convVars, otherVars, probe_script, probe_files, format_counts,
                   error_count>>

\* one iteration of the distribution loop: probe the file and count it
ProbeCount ==
    /\ probe_pc = "count"
    /\ format_info' = investigate_wav_format_info(FileBytes(probe_files[probe_idx]))
    /\ IF format_info' = None
       THEN /\ probe_pc' = "crashed"
            /\ UNCHANGED <<probe_idx, format_counts, error_count>>
       ELSE /\ IF HasError(format_info')
               THEN error_count' = error_count + 1 /\ UNCHANGED format_counts
               ELSE /\ format_counts' = CountUp(format_counts, format_info'.audio_format)
                    /\ UNCHANGED error_count
            /\ probe_idx' = probe_idx + 1
            /\ probe_pc' = IF probe_idx + 1 > Len(probe_files) THEN "done" ELSE "count"
    /\ UNCHANGED <<durVars, convVars, otherVars, probe_script, probe_files>>

NextProbe == ProbeGlob \/ ProbeSample \/ ProbeCount

SpecProbe == InitProbe /\ [][NextProbe]_vars

-----------------------------------------------------------------------------
(* Properties of the investigation scripts *)

\* a probe that checks both magics finds no format chunk in the file
Unreadable(c) == read_wav_header(FileBytes(c)) = None

\* the number of files counted under some format tag
RECURSIVE Total(_)
Total(counts) ==
    IF DOMAIN counts = {} THEN 0
    ELSE LET t == CHOOSE u \in DOMAIN counts : TRUE
         IN  counts[t] + Total([u \in DOMAIN counts \ {t} |-> counts[u]])

\* C13: a file that cannot be probed does not abort a probing loop, and when
\* the distribution loop has ended every such file is counted as an error
\* and no such file is counted under a format tag.
C13_UnreadableCountedNotFatal ==
    /\ probe_pc # "crashed"
    /\ probe_pc = "done"
         => /\ error_count
                 = Cardinality({k \in 1..Len(probe_files) : Unreadable(probe_files[k])})
            /\ Total(format_counts)
                 = Cardinality({k \in 1..Len(probe_files) : ~Unreadable(probe_files[k])})

-----------------------------------------------------------------------------
(* convert_to_ljspeech.py *)

\* LANGUAGE_MAPPING.get(archive_name, 'unknown'); an archive directory
\* 'archive (n)' is modelled by its number n
UNKNOWN == "unknown"
get_language_from_archive(n) ==
    CASE n = 1 -> "de"
      [] n = 2 -> "el"
      [] n = 3 -> "es"
      [] n = 4 -> "fi"
      [] n = 5 -> "fr"
      [] n = 6 -> "hu"
      [] n = 7 -> "ja"
      [] n = 8 -> "nl"
      [] n = 9 -> "ru"
      [] n = 10 -> "zh"
      [] OTHER -> UNKNOWN

\* a file path of a transcript: directory/stem.wav; the empty string is the
\* path with no directory and no stem
LjPath(d, st) == [dir |-> d, stem |-> st]
EmptyPath == LjPath("", "")

\* a transcript line: the number of its '|'-separated parts, the first part
\* (a file path) and the second (the text)
TranscriptLine(n, f, t) == [parts |-> n, first |-> f, second |-> t]

\* the pair (None, None) is the record with ok = FALSE
parse_transcript_line(line) ==
    IF line.parts >= 3
    THEN [ok |-> TRUE, file_path |-> line.first, text |-> line.second]
    ELSE [ok |-> FALSE, file_path |-> EmptyPath, text |-> ""]

\* "if not file_path_from_transcript or not text: continue"
NotPathOrText(parsed) ==
    ~parsed.ok \/ parsed.file_path = EmptyPath \/ parsed.text = ""

\* find_wav_file(base_path, file_path) finds a file
WavFound(archive, file_path) == file_path \in archive.files

\* Path(file_path_from_transcript).stem
Stem(file_path) == file_path.stem

\* new_basename = f"{lang_code}_{original_basename}"
NewBasename(lang_code, file_path) == [lang |-> lang_code, stem |-> Stem(file_path)]

\* metadata_row = f"{new_basename}|{lang_code}|{text}"
MetadataRow(new_basename, lang_code, text) ==
    [id |-> new_basename, lang |-> lang_code, text |-> text]

\* the content of the audio file at a path of an archive
SourceWav(n, file_path) ==
    IeeeFile(n + (IF file_path.dir = "p" THEN 0 ELSE 1)
               + (IF file_path.stem = "x" THEN 0 ELSE 2))

LjPaths == {LjPath("p", "x"), LjPath("q", "x"), LjPath("p", "y")}
LjLines ==
    {TranscriptLine(3, f, "t") : f \in LjPaths}
        \cup {TranscriptLine(3, EmptyPath, "t"), TranscriptLine(3, LjPath("p", "x"), ""),
              TranscriptLine(2, LjPath("p", "x"), "t")}
LjNumbers == {1, 2, 11}
LjIds == {NewBasename(lang, f) : lang \in {"de", "el"}, f \in LjPaths}

MaxArchives == 2
MaxLines == 2

\* the archive directories the script can find: a number, whether it holds
\* transcript.txt, the audio files it holds and the transcript's lines
LjArchives ==
    {a \in [num : LjNumbers, transcript : BOOLEAN,
            files : {LjPaths, LjPaths \ {LjPath("p", "x")}},
            lines : UNION {[1..k -> LjLines] : k \in 0..MaxLines}] :
        ~a.transcript => (a.lines = <<>> /\ a.files = LjPaths)}

InitLj ==
    /\ DurIdle
    /\ ConvIdle
    /\ ProbeIdle
    /\ MetaIdle
    /\ \E N \in SUBSET LjNumbers :
          /\ Cardinality(N) <= MaxArchives
          /\ \E pick \in [N -> LjArchives] :
                /\ \A n \in N : pick[n].num = n
                /\ data_dir = {pick[n] : n \in N}
    /\ archive_dirs = <<>>
    /\ lj_pc = "start"
    /\ lj_a = 0
    /\ lj_l = 0
    /\ output_wavs = [id \in LjIds |-> Absent]
    /\ metadata_rows = <<>>
    /\ metadata_csv = Absent

\* archive_dirs.sort(key=lambda x: int(x.name.split()[1].strip('()')))
SortedArchives(D) ==
    CHOOSE seq \in [1..Cardinality(D) -> D] :
        \A j, k \in 1..Cardinality(D) : j < k => seq[j].num < seq[k].num

\* the next archive of main's loop, or the writing of metadata.csv
LjAfterArchive ==
    /\ lj_a' = lj_a + 1
    /\ lj_l' = 0
    /\ lj_pc' = IF lj_a + 1 > Len(archive_dirs) THEN "write" ELSE "archive"

\* main up to its loop over the archives
LjStart ==
    /\ lj_pc = "start"
    /\ archive_dirs' = SortedArchives(data_dir)
    /\ metadata_rows' = <<>>
    /\ lj_a' = 1
    /\ lj_pc' = IF data_dir = {} THEN "write" ELSE "archive"
    /\ UNCHANGED <<durVars, convVars, probeVars, metaVars, data_dir, lj_l, output_wavs,
                   metadata_csv>>

\* process_archive up to its loop over the lines
LjProcessArchive ==
    /\ lj_pc = "archive"
    /\ LET a == archive_dirs[lj_a]
       IN  IF get_language_from_archive(a.num) = UNKNOWN \/ ~a.transcript
              \/ a.lines = <<>>
           THEN LjAfterArchive
           ELSE lj_pc' = "line" /\ lj_l' = 1 /\ UNCHANGED lj_a
    /\ UNCHANGED <<durVars, convVars, probeVars, metaVars, data_dir, archive_dirs,
                   output_wavs, metadata_rows, metadata_csv>>

\* one iteration of process_archive's loop over the lines
LjLine ==
    /\ lj_pc = "line"
    /\ LET a == archive_dirs[lj_a]
           lang_code == get_language_from_archive(a.num)
           parsed == parse_transcript_line(a.lines[lj_l])
           wav_file == parsed.file_path
           id == NewBasename(lang_code, parsed.file_path)
       IN  IF NotPathOrText(parsed) \/ ~WavFound(a, parsed.file_path)
              \/ output_wavs[id] # Absent
           THEN UNCHANGED <<output_wavs, metadata_rows>>
           ELSE \E o \in CopyOutcomes :
                   /\ output_wavs' =
                         [output_wavs EXCEPT
                            ![id] = Copy2(output_wavs[id], SourceWav(a.num, wav_file), o)]
                   /\ metadata_rows' =
                         IF o = "ok"
                         THEN Append(metadata_rows, MetadataRow(id, lang_code, parsed.text))
                         ELSE metadata_rows
    /\ IF lj_l + 1 > Len(archive_dirs[lj_a].lines)
       THEN LjAfterArchive
       ELSE lj_l' = lj_l + 1 /\ UNCHANGED <<lj_a, lj_pc>>
    /\ UNCHANGED <<durVars, convVars, probeVars, metaVars, data_dir, archive_dirs,
                   metadata_csv>>

\* with open(metadata_file, 'w') ...: f.write(row + '\n')
LjWriteMetadata ==
    /\ lj_pc = "write"
    /\ metadata_csv' = metadata_rows
    /\ lj_pc' = "done"
    /\ UNCHANGED <<durVars, convVars, probeVars, metaVars, data_dir, archive_dirs, lj_a,
                   lj_l, output_wavs, metadata_rows>>

NextLj == LjStart \/ LjProcessArchive \/ LjLine \/ LjWriteMetadata

SpecLj == InitLj /\ [][NextLj]_vars

-----------------------------------------------------------------------------
(* update_metadata_format.py *)

\* A line of metadata.csv is the sequence of its characters without the
\* newline; the word 'speaker' is one character, SPEAKER.
BAR == "|"
EQ == "="
SPACE == " "
SPEAKER == "speaker"

\* str.strip()
RECURSIVE LStrip(_)
LStrip(str) ==
    IF str # <<>> /\ Head(str) = SPACE THEN LStrip(Tail(str)) ELSE str
RECURSIVE RStrip(_)
RStrip(str) ==
    IF str # <<>> /\ str[Len(str)] = SPACE
    THEN RStrip(SubSeq(str, 1, Len(str) - 1))
    ELSE str
Strip(str) == RStrip(LStrip(str))

\* str.split(sep)
RECURSIVE Split(_, _)
Split(str, sep) ==
    IF \A k \in 1..Len(str) : str[k] # sep
    THEN <<str>>
    ELSE LET i == CHOOSE k \in 1..Len(str) :
                    str[k] = sep /\ \A m \in 1..(k - 1) : str[m] # sep
         IN  <<SubSeq(str, 1, i - 1)>> \o Split(SubSeq(str, i + 1, Len(str)), sep)

\* str.startswith(prefix)
StartsWith(str, prefix) ==
    Len(str) >= Len(prefix) /\ SubSeq(str, 1, Len(prefix)) = prefix

\* f"{filename}|{lang_code}|{text}"
NewLine(filename, lang_code, text) ==
    filename \o <<BAR>> \o lang_code \o <<BAR>> \o text

\* what the loop over the lines appends to updated_rows for one line
UpdatedRows(line) ==
    LET parts == Split(Strip(line), BAR)
    IN  IF Len(parts) >= 3
        THEN IF StartsWith(parts[2], <<SPEAKER, EQ>>)
             THEN <<NewLine(parts[1], Split(parts[2], EQ)[2], parts[3])>>
             ELSE <<Strip(line)>>
        ELSE <<>>

\* updated_rows after the loop over all the lines
RECURSIVE UpdateAll(_)
UpdateAll(lines) ==
    IF lines = <<>> THEN <<>>
    ELSE UpdatedRows(Head(lines)) \o UpdateAll(Tail(lines))

MaxMetaLines == 2
MaxMetaRuns == 2

OldRow == <<"a", BAR, SPEAKER, EQ, "d", BAR, "t">>
NewRow == <<"a", BAR, "d", BAR, "t">>
MetaLines ==
    {OldRow, NewRow,
     <<"b", BAR, SPEAKER, EQ, "d", BAR, "t", SPACE, "t">>,
     <<"a", BAR, SPEAKER, EQ, "d", EQ, "e", BAR, "t">>,
     <<"a", BAR, SPEAKER, EQ, BAR, "t">>,
     <<"a", BAR, SPEAKER, BAR, "t">>,
     <<"a", BAR, SPEAKER, EQ, "d", BAR, "t", BAR, "n">>,
     <<"a", BAR, "d", BAR, "t", BAR, "n">>,
     <<"a", BAR, "t">>,
     <<"a", BAR, "d", BAR, "t", SPACE>>,
     <<>>}

MetaFiles == UNION {[1..k -> MetaLines] : k \in 0..MaxMetaLines}

InitMeta ==
    /\ DurIdle
    /\ ConvIdle
    /\ ProbeIdle
    /\ LjIdle
    /\ metadata_file \in {TextFile(lines) : lines \in MetaFiles} \cup {NoFile}
    /\ backup_file \in {NoFile, TextFile(<<OldRow>>)}
    /\ meta_runs = 0

\* update_metadata_format when raw/metadata.csv does not exist
UpdateMetadataMissing ==
    /\ meta_runs < MaxMetaRuns
    /\ ~metadata_file.exists
    /\ meta_runs' = meta_runs + 1
    /\ UNCHANGED <<durVars, convVars, probeVars, ljVars, metadata_file, backup_file>>

\* update_metadata_format when raw/metadata.csv exists
UpdateMetadataFormat ==
    /\ meta_runs < MaxMetaRuns
    /\ metadata_file.exists
    /\ backup_file' = metadata_file
    /\ metadata_file' = TextFile(UpdateAll(metadata_file.lines))
    /\ meta_runs' = meta_runs + 1
    /\ UNCHANGED <<durVars, convVars, probeVars, ljVars>>

NextMeta == UpdateMetadataMissing \/ UpdateMetadataFormat

SpecMeta == InitMeta /\ [][NextMeta]_vars

-----------------------------------------------------------------------------
(* Properties of update_metadata_format.py *)

\* the '|'-separated fields of a line without its surrounding white space
Fields(line) == Split(Strip(line), BAR)

\* everything after the second '|' of a line
RECURSIVE JoinFrom(_, _)
JoinFrom(parts, k) ==
    IF k > Len(parts) THEN <<>>
    ELSE IF k = Len(parts) THEN parts[k]
    ELSE parts[k] \o <<BAR>> \o JoinFrom(parts, k + 1)
FullText(line) == JoinFrom(Fields(line), 3)

\* the second field without a leading 'speaker='
LangCode(line) ==
    LET second == IF Len(Fields(line)) >= 2 THEN Fields(line)[2] ELSE <<>>
    IN  IF StartsWith(second, <<SPEAKER, EQ>>)
        THEN SubSeq(second, 3, Len(second))
        ELSE second

\* out is the row that line must become
RowKept(line, out) ==
    /\ Fields(out)[1] = Fields(line)[1]
    /\ Len(Fields(out)) >= 3
    /\ Fields(out)[2] = LangCode(line)
    /\ FullText(out) = FullText(line)

\* C30: a run of update_metadata_format over an existing metadata.csv writes
\* one line for every input line, in the same order, with the same
\* identifier and full text and the language code without 'speaker=';
\* the backup holds the content from before the run; a second run leaves
\* metadata.csv as the first one wrote it.
C30_EveryRowKept ==
    [][(metadata_file.exists /\ meta_runs' = meta_runs + 1)
          => /\ Len(metadata_file'.lines) = Len(metadata_file.lines)
             /\ \A k \in 1..Len(metadata_file.lines) :
                   k <= Len(metadata_file'.lines)
                       => RowKept(metadata_file.lines[k], metadata_file'.lines[k])
             /\ backup_file' = metadata_file
             /\ meta_runs >= 1 => metadata_file' = metadata_file]_vars

-----------------------------------------------------------------------------
(* Properties of convert_to_ljspeech.py *)

\* the identifier of a metadata row: its first field
RowId(row) == row.id

\* C22: when main has ended, the identifiers of the rows of metadata.csv
\* are the stems of the files in raw/wavs and no identifier is in two rows;
\* no step changes an output file that exists.
C22_MetadataMatchesWavs ==
    [][/\ lj_pc' = "done"
            => /\ {RowId(metadata_csv'[k]) : k \in 1..Len(metadata_csv')}
                     = {id \in LjIds : output_wavs'[id] # Absent}
               /\ \A j, k \in 1..Len(metadata_csv') :
                     RowId(metadata_csv'[j]) = RowId(metadata_csv'[k]) => j = k
       /\ lj_pc = "line"
            => \A id \in LjIds :
                  output_wavs[id] # Absent => output_wavs'[id] = output_wavs[id]]_vars

-----------------------------------------------------------------------------
(* Properties of the chunk walk *)

\* the six format fields the file was built with
FormatFields(c) ==
    [audio_format    |-> c.tag,
     num_channels    |-> c.ch,
     sample_rate     |-> c.rate,
     byte_rate       |-> c.brate,
     block_align     |-> c.ch * (c.bits \div 8),
     bits_per_sample |-> c.bits]

SixFields(h) ==
    [audio_format    |-> h.audio_format,
     num_channels    |-> h.num_channels,
     sample_rate     |-> h.sample_rate,
     byte_rate       |-> h.byte_rate,
     block_align     |-> h.block_align,
     bits_per_sample |-> h.bits_per_sample]

\* C11: when one chunk with an unknown tag, whose declared length fits in the
\* file, precedes the format chunk of an intact container, read_wav_header
\* skips it and returns exactly the six fields of the format chunk.
C11_UnknownChunksSkipped ==
    (/\ durPc = "done"
     /\ Intact(wav) /\ ~wav.dataFirst /\ wav.pre > 0)
    => /\ header_info # None
       /\ SixFields(header_info) = FormatFields(wav)

\* what a walk over the chunk headers meets first, from offset pos up to and
\* including the data chunk: the end of the stream ("end"), a header position
\* with 1..7 bytes left ("truncated"), a chunk whose declared length exceeds
\* the bytes left after its header ("oversized"), or a complete data chunk
RECURSIVE WalkMeets(_, _)
WalkMeets(b, pos) ==
    LET left == Len(b) - pos
    IN  IF left <= 0 THEN "end"
        ELSE IF left < 8 THEN "truncated"
        ELSE LET size == UnpackI(Read(b, pos + 4, 4))
             IN  IF size > left - 8 THEN "oversized"
                 ELSE IF Read(b, pos, 4) = DATA THEN "data"
                 ELSE WalkMeets(b, pos + 8 + size)

\* C12: for a file with both magics whose chunks start with the format chunk,
\* a header position with 1..7 bytes left and a chunk whose declared length
\* exceeds the bytes left are reported as errors: the probe returns no format.
C12_TruncationReported ==
    (/\ durPc = "done"
     /\ wav.riff /\ wav.wave /\ wav.pre = 0 /\ ~wav.dataFirst
     /\ WalkMeets(FileBytes(wav), 12) \in {"truncated", "oversized"})
    => header_info = None

\* the declared length of the chunk at offset 12 of the measured file
FirstChunkSize(c) == UnpackI(Read(FileBytes(c), 16, 4))

\* C21: in a container whose first chunk has an odd declared length and is
\* followed by its pad byte, skipping that chunk leaves the stream at the
\* position after the pad byte, where the next 8-byte header starts.
C21_SkipRoundsToEven ==
    (/\ durPc = "done"
     /\ Intact(wav) /\ ~wav.dataFirst /\ wav.pre > 0 /\ wav.pad)
    => /\ SkipChunk(12, FirstChunkSize(wav))
            = 12 + 8 + FirstChunkSize(wav) + (FirstChunkSize(wav) % 2)
       /\ Read(FileBytes(wav), SkipChunk(12, FirstChunkSize(wav)), 4) = FMT

\* C29: the returned duration is None or a value >= 0.
C29_NeverNegative ==
    (durPc = "done" /\ duration # None)
        => (duration.num >= 0 /\ duration.den > 0)
              \/ (duration.num <= 0 /\ duration.den < 0)

====
